---- MODULE Spec2Model ----
(***************************************************************************)
(* Exercise tracker: an Express application over two MongoDB collections   *)
(* (src/index.js).  Every route handler is an async function: it runs      *)
(* synchronously up to its next `await` of a storage call, and handlers of *)
(* different requests interleave at those awaits.  One action below is one *)
(* such synchronous segment of one handler.                                *)
(***************************************************************************)
EXTENDS Integers, Sequences, FiniteSets, TLC

\* ------------------------------------------------------------------ bounds
NumClients == 2        \* requests that can be in flight at once
MaxExercises == 2      \* stored exercises (the collection itself is unbounded)

Clients == 1 .. NumClients

\* ------------------------------------------------------------- JS values
NONE == "undefined"                      \* a field the request does not carry
Falsy(s) == s \in {NONE, ""}             \* !s for the strings a body can hold

Min(a, b) == IF a <= b THEN a ELSE b

\* parseInt(s): the leading integer of s, NaN when there is none.
ParseInt(s) ==
  CASE s = "7min" -> [nan |-> FALSE, n |-> 7]
    [] s = "0"    -> [nan |-> FALSE, n |-> 0]
    [] s = "1"    -> [nan |-> FALSE, n |-> 1]
    [] OTHER      -> [nan |-> TRUE,  n |-> 0]

\* new Date(s): a timestamp, counted in half days (2 * day + half), or an
\* invalid Date.  A date without time of day is the midnight of its day.
ParseDate(s) ==
  CASE s = "2023-01-01" -> [valid |-> TRUE, t |-> 2]
    [] s = "2023-01-02" -> [valid |-> TRUE, t |-> 4]
    [] OTHER            -> [valid |-> FALSE, t |-> 0]

\* new Date(): the server's clock, here the noon of 2023-01-02.
NowTimes == {5}

\* Date.prototype.toDateString: the calendar day, the time of day dropped.
ToDateString(t) == t \div 2

\* ------------------------------------------------------------- requests
UsernameInputs == {NONE, "", "ann", "bob"}
\* _id path segments: 0 is a string that is no ObjectId, the others are
\* well-formed ObjectIds (stored or not).
PathIds == {0, 1, 2}
IsObjectId(id) == id >= 1
DescriptionInputs == {NONE, "run"}
DurationInputs == {NONE, "abc", "7min"}
DateInputs == {NONE, "garbage", "2023-01-01", "2023-01-02"}
BoundInputs == {NONE, "garbage", "2023-01-02"}
LimitInputs == {NONE, "0", "1"}

CreateUserRequests ==
  [route : {"POST /api/users"}, username : UsernameInputs]
ListUsersRequests == [route : {"GET /api/users"}]
AddExerciseRequests ==
  [route : {"POST /api/users/:_id/exercises"}, id : PathIds,
   description : DescriptionInputs, duration : DurationInputs, date : DateInputs]
LogsRequests ==
  [route : {"GET /api/users/:_id/logs"}, id : PathIds,
   from : BoundInputs, to : BoundInputs, limit : LimitInputs]

Requests ==
  CreateUserRequests \cup ListUsersRequests \cup AddExerciseRequests \cup LogsRequests

\* The requests of the concurrent specification: every route, with the fields
\* that the handlers check before or without a storage call held valid.
CoreRequests ==
  {r \in Requests :
     \/ r.route = "POST /api/users" /\ r.username # ""
     \/ r.route = "GET /api/users"
     \/ /\ r.route = "POST /api/users/:_id/exercises"
        /\ r.id # 0
        /\ r.description = "run"
        /\ r.duration = "7min"
        /\ r.date = NONE
     \/ /\ r.route = "GET /api/users/:_id/logs"
        /\ r.id # 0
        /\ r.from = NONE
        /\ r.to = NONE
        /\ r.limit = NONE}

\* The requests of the specification with storage faults: one username, and
\* of every route a request for each error answer the route has.
FaultRequests ==
  {r \in Requests :
     \/ r.route = "POST /api/users" /\ r.username \in {NONE, "ann"}
     \/ r.route = "GET /api/users"
     \/ /\ r.route = "POST /api/users/:_id/exercises"
        /\ r.description = "run"
        /\ r.duration \in {"abc", "7min"}
        /\ r.date = NONE
     \/ /\ r.route = "GET /api/users/:_id/logs"
        /\ r.from \in {NONE, "garbage"}
        /\ r.to = NONE
        /\ r.limit = NONE}

NoReq == [route |-> "none"]
NoResp == [status |-> 0, body |-> <<>>]
NoLoc == [at |-> "none"]

\* ---------------------------------------------------------------- state
VARIABLES
  users,      \* the User collection, in insertion order: [id, username]
  exercises,  \* the Exercise collection: [userId, description, duration, date]
  pc,         \* per client: "idle" or the storage call its handler awaits
  req,        \* per client: the request being handled, or the last one
  resp,       \* per client: the answer to req, NoResp while it is handled
  loc,        \* per client: the handler's local variables across an await
  calls,      \* per client: the storage calls the handler of req has made
  sent        \* the 200 answers of add-exercise, in the order they were sent

vars == <<users, exercises, pc, req, resp, loc, calls, sent>>

Init ==
  /\ users = <<>>
  /\ exercises = <<>>
  /\ pc = [c \in Clients |-> "idle"]
  /\ req = [c \in Clients |-> NoReq]
  /\ resp = [c \in Clients |-> NoResp]
  /\ loc = [c \in Clients |-> NoLoc]
  /\ calls = [c \in Clients |-> <<>>]
  /\ sent = <<>>

\* -------------------------------------------------------------- storage
\* Mutant: the lookup by username never finds a user.
FindByUsernameNone(name) == {}

\* User.findOne({username}) / User.findById(id): the matching documents.
FindByUsername(name) == {i \in 1 .. Len(users) : users[i].username = name}
FindById(id) == {i \in 1 .. Len(users) : users[i].id = id}

\* Mutant: the username field has no unique index.
DuplicateKeyNoIndex(name) == FALSE

\* The unique index of userSchema.username: an insert of a username that is
\* stored already is rejected with the duplicate-key error.
DuplicateKey(name) == \E i \in 1 .. Len(users) : users[i].username = name

\* The errors a storage call can throw.
E11000 == [name |-> "MongoServerError", code |-> "11000", path |-> NONE]
CastErrorId == [name |-> "CastError", code |-> NONE, path |-> "_id"]
StorageDown == [name |-> "MongoNetworkError", code |-> NONE, path |-> NONE]

Error(status, message) == [status |-> status, body |-> [error |-> message]]
Ok(body) == [status |-> 200, body |-> body]

\* ------------------------------------------------------- handler steps
\* res.json / res.status().json: the handler of client c ends with answer r.
Answer(c, r) ==
  /\ resp' = [resp EXCEPT ![c] = r]
  /\ pc' = [pc EXCEPT ![c] = "idle"]
  /\ loc' = [loc EXCEPT ![c] = NoLoc]

\* await: the handler of client c issues storage call `call`, the calls
\* `made` before it, and suspends with its locals l.
Suspend(c, call, l, made) ==
  /\ pc' = [pc EXCEPT ![c] = call]
  /\ loc' = [loc EXCEPT ![c] = l]
  /\ calls' = [calls EXCEPT ![c] = Append(made, call)]

\* A request arrives on an idle connection and its handler starts.
Arrive(c, r) ==
  /\ pc[c] = "idle"
  /\ req' = [req EXCEPT ![c] = r]

\* Mutant: the handler looks the user up before it checks its input.
AnswerAfterLookup(c, r) ==
  /\ Answer(c, r)
  /\ calls' = [calls EXCEPT ![c] = <<"User.findById">>]

\* The handler of an arriving request answers before any await.
AnswerAtOnce(c, r) ==
  /\ Answer(c, r)
  /\ calls' = [calls EXCEPT ![c] = <<>>]

\* The handler of an arriving request reaches its first await.
FirstAwait(c, call, l) ==
  /\ Suspend(c, call, l, <<>>)
  /\ resp' = [resp EXCEPT ![c] = NoResp]

\* ---------------------------------------------------- POST /api/users
\* Mutant: the catch block does not look at err.code.
CreateUserCatchGeneric(err) == Error(500, "Could not create user")

\* catch (err) of the create-user handler.
CreateUserCatch(err) ==
  IF err.code = "11000"
  THEN Error(400, "Username already taken")
  ELSE Error(500, "Could not create user")

UserJson(u) == [username |-> u.username, _id |-> u.id]

PostUsers(c, r) ==
  /\ Arrive(c, r)
  /\ IF Falsy(r.username)
     THEN AnswerAtOnce(c, Error(400, "Username is required"))
     ELSE FirstAwait(c, "User.findOne", NoLoc)
  /\ UNCHANGED <<users, exercises, sent>>

\* User.findOne resolves.
CreateUserFindOne(c) ==
  /\ pc[c] = "User.findOne"
  /\ LET found == FindByUsername(req[c].username) IN
     IF found # {}
     THEN /\ Answer(c, Ok(UserJson(users[CHOOSE i \in found : TRUE])))
          /\ UNCHANGED calls
     ELSE /\ Suspend(c, "newUser.save", NoLoc, calls[c])
          /\ UNCHANGED resp
  /\ UNCHANGED <<users, exercises, req, sent>>

\* Mutant: the document is inserted before the duplicate is noticed.
CreateUserSaveInsertFirst(c) ==
  /\ pc[c] = "newUser.save"
  /\ LET savedUser == [id |-> Len(users) + 1, username |-> req[c].username] IN
     /\ users' = Append(users, savedUser)
     /\ IF DuplicateKey(req[c].username)
        THEN Answer(c, CreateUserCatch(E11000))
        ELSE Answer(c, Ok(UserJson(savedUser)))
  /\ UNCHANGED <<exercises, req, calls, sent>>

\* newUser.save resolves or rejects.
CreateUserSave(c) ==
  /\ pc[c] = "newUser.save"
  /\ IF DuplicateKey(req[c].username)
     THEN /\ Answer(c, CreateUserCatch(E11000))
          /\ UNCHANGED users
     ELSE LET savedUser == [id |-> Len(users) + 1, username |-> req[c].username] IN
          /\ users' = Append(users, savedUser)
          /\ Answer(c, Ok(UserJson(savedUser)))
  /\ UNCHANGED <<exercises, req, calls, sent>>

\* ----------------------------------------------------- GET /api/users
ListUsersCatch(err) == Error(500, "Could not retrieve users")

GetUsers(c, r) ==
  /\ Arrive(c, r)
  /\ FirstAwait(c, "User.find", NoLoc)
  /\ UNCHANGED <<users, exercises, sent>>

\* User.find({}, 'username _id') resolves.
ListUsersFind(c) ==
  /\ pc[c] = "User.find"
  /\ Answer(c, Ok([i \in 1 .. Len(users) |-> UserJson(users[i])]))
  /\ UNCHANGED <<users, exercises, req, calls, sent>>

\* ------------------------------------- POST /api/users/:_id/exercises
AddExerciseCatch(err) ==
  IF err.name = "CastError" /\ err.path = "_id"
  THEN Error(400, "Invalid user ID format")
  ELSE Error(500, "Could not add exercise")

\* Mutant: the date is checked before the duration.
AddExerciseValidateDateFirst(r) ==
  IF Falsy(r.description) \/ Falsy(r.duration)
  THEN Error(400, "Description and duration are required")
  ELSE IF ~Falsy(r.date) /\ ~ParseDate(r.date).valid
  THEN Error(400, "Invalid date format")
  ELSE IF ParseInt(r.duration).nan
  THEN Error(400, "Duration must be a number")
  ELSE NoResp

\* The checks before the try block: the first failing one, NoResp when none.
AddExerciseValidate(r) ==
  IF Falsy(r.description) \/ Falsy(r.duration)
  THEN Error(400, "Description and duration are required")
  ELSE IF ParseInt(r.duration).nan
  THEN Error(400, "Duration must be a number")
  ELSE IF ~Falsy(r.date) /\ ~ParseDate(r.date).valid
  THEN Error(400, "Invalid date format")
  ELSE NoResp

\* Handlers that are going to insert an exercise.
AddingExercise == {d \in Clients : pc[d] \in {"User.findById", "newExercise.save"}
                                   /\ req[d].route = "POST /api/users/:_id/exercises"}

PostExercises(c, r) ==
  /\ Arrive(c, r)
  /\ LET failed == AddExerciseValidate(r) IN
     IF failed.status # 0
     THEN AnswerAtOnce(c, failed)
     ELSE /\ Len(exercises) + Cardinality(AddingExercise) < MaxExercises
          /\ \E now \in NowTimes :
               FirstAwait(c, "User.findById",
                          [durationNum |-> ParseInt(r.duration).n,
                           exerciseDate |-> IF Falsy(r.date) THEN now
                                            ELSE ParseDate(r.date).t])
  /\ UNCHANGED <<users, exercises, sent>>

\* Mutant: the handler does not check that the user was found.
AddExerciseFindUserUnchecked(c) ==
  /\ pc[c] = "User.findById"
  /\ req[c].route = "POST /api/users/:_id/exercises"
  /\ IF ~IsObjectId(req[c].id)
     THEN /\ Answer(c, Error(400, "Invalid user ID format"))
          /\ UNCHANGED calls
     ELSE /\ Suspend(c, "newExercise.save",
                     [user |-> [id |-> req[c].id, username |-> NONE],
                      durationNum |-> loc[c].durationNum,
                      exerciseDate |-> loc[c].exerciseDate],
                     calls[c])
          /\ UNCHANGED resp
  /\ UNCHANGED <<users, exercises, req, sent>>

\* User.findById resolves or rejects.
AddExerciseFindUser(c) ==
  /\ pc[c] = "User.findById"
  /\ req[c].route = "POST /api/users/:_id/exercises"
  /\ LET found == FindById(req[c].id) IN
     IF ~IsObjectId(req[c].id)
     THEN /\ Answer(c, AddExerciseCatch(CastErrorId))
          /\ UNCHANGED calls
     ELSE IF found = {}
     THEN /\ Answer(c, Error(404, "User not found"))
          /\ UNCHANGED calls
     ELSE /\ Suspend(c, "newExercise.save",
                     [user |-> users[CHOOSE i \in found : TRUE],
                      durationNum |-> loc[c].durationNum,
                      exerciseDate |-> loc[c].exerciseDate],
                     calls[c])
          /\ UNCHANGED resp
  /\ UNCHANGED <<users, exercises, req, sent>>

\* The document new Exercise({...}) builds from the handler's locals.
NewExercise(r, l) ==
  [userId |-> l.user.id, description |-> r.description,
   duration |-> l.durationNum, date |-> l.exerciseDate]

\* The body of the add-exercise answer.
ExerciseJson(user, savedExercise) ==
  [username |-> user.username, description |-> savedExercise.description,
   duration |-> savedExercise.duration,
   date |-> ToDateString(savedExercise.date), _id |-> user.id]

\* newExercise.save resolves.
AddExerciseSave(c) ==
  /\ pc[c] = "newExercise.save"
  /\ LET savedExercise == NewExercise(req[c], loc[c])
         body == ExerciseJson(loc[c].user, savedExercise) IN
     /\ exercises' = Append(exercises, savedExercise)
     /\ Answer(c, Ok(body))
     /\ sent' = Append(sent, Ok(body))
  /\ UNCHANGED <<users, req, calls>>

\* ------------------------------------------- GET /api/users/:_id/logs
LogsCatch(err) ==
  IF err.name = "CastError" /\ err.path = "_id"
  THEN Error(400, "Invalid user ID format")
  ELSE Error(500, "Could not retrieve logs")

\* Mutant: to is checked before from.
LogsValidateToFirst(r) ==
  IF ~Falsy(r.to) /\ ~ParseDate(r.to).valid
  THEN Error(400, "Invalid 'to' date format")
  ELSE IF ~Falsy(r.from) /\ ~ParseDate(r.from).valid
  THEN Error(400, "Invalid 'from' date format")
  ELSE NoResp

\* The checks of from and to: the first failing one, NoResp when none.
LogsValidate(r) ==
  IF ~Falsy(r.from) /\ ~ParseDate(r.from).valid
  THEN Error(400, "Invalid 'from' date format")
  ELSE IF ~Falsy(r.to) /\ ~ParseDate(r.to).valid
  THEN Error(400, "Invalid 'to' date format")
  ELSE NoResp

\* The query the handler builds: each of gte, lte and limit is the empty
\* set (not applied) or holds the one value applied.
LogsQuery(r) ==
  [userId |-> r.id,
   gte |-> IF Falsy(r.from) THEN {} ELSE {ParseDate(r.from).t},
   lte |-> IF Falsy(r.to) THEN {} ELSE {ParseDate(r.to).t},
   limit |-> LET limitNum == ParseInt(r.limit) IN
             IF ~limitNum.nan /\ limitNum.n > 0 THEN {limitNum.n} ELSE {}]

GetLogs(c, r) ==
  /\ Arrive(c, r)
  /\ FirstAwait(c, "User.findById", NoLoc)
  /\ UNCHANGED <<users, exercises, sent>>

\* User.findById resolves or rejects; the handler runs on to query.exec().
LogsFindUser(c) ==
  /\ pc[c] = "User.findById"
  /\ req[c].route = "GET /api/users/:_id/logs"
  /\ LET found == FindById(req[c].id)
         failed == LogsValidate(req[c]) IN
     IF ~IsObjectId(req[c].id)
     THEN /\ Answer(c, LogsCatch(CastErrorId))
          /\ UNCHANGED calls
     ELSE IF found = {}
     THEN /\ Answer(c, Error(404, "User not found"))
          /\ UNCHANGED calls
     ELSE IF failed.status # 0
     THEN /\ Answer(c, failed)
          /\ UNCHANGED calls
     ELSE /\ Suspend(c, "query.exec",
                     [user |-> users[CHOOSE i \in found : TRUE],
                      query |-> LogsQuery(req[c])],
                     calls[c])
          /\ UNCHANGED resp
  /\ UNCHANGED <<users, exercises, req, sent>>

\* Mutant: the upper bound of the date range is exclusive.
MatchesBefore(e, q) ==
  /\ e.userId = q.userId
  /\ \A t \in q.gte : e.date >= t
  /\ \A t \in q.lte : e.date < t

\* Whether exercise e matches the conditions of query q.
Matches(e, q) ==
  /\ e.userId = q.userId
  /\ \A t \in q.gte : e.date >= t
  /\ \A t \in q.lte : e.date <= t

\* query.exec(): the matching exercises in natural order, cut at the limit.
Exec(q) ==
  LET matching == SelectSeq(exercises, LAMBDA e : Matches(e, q)) IN
  IF q.limit = {} THEN matching
  ELSE SubSeq(matching, 1, Min(CHOOSE n \in q.limit : TRUE, Len(matching)))

\* Mutant: the log holds the stored timestamp, not its toDateString().
LogEntryRawDate(ex) ==
  [description |-> ex.description, duration |-> ex.duration, date |-> ex.date]

LogEntry(ex) ==
  [description |-> ex.description, duration |-> ex.duration,
   date |-> ToDateString(ex.date)]

\* query.exec() resolves.
LogsExec(c) ==
  /\ pc[c] = "query.exec"
  /\ LET found == Exec(loc[c].query)
         log == [i \in 1 .. Len(found) |-> LogEntry(found[i])] IN
     Answer(c, Ok([username |-> loc[c].user.username, count |-> Len(log),
                   _id |-> loc[c].user.id, log |-> log]))
  /\ UNCHANGED <<users, exercises, req, calls, sent>>

\* ------------------------------------------------------ storage faults
\* The catch block of the handler of route.
Catch(route, err) ==
  CASE route = "POST /api/users" -> CreateUserCatch(err)
    [] route = "GET /api/users" -> ListUsersCatch(err)
    [] route = "POST /api/users/:_id/exercises" -> AddExerciseCatch(err)
    [] route = "GET /api/users/:_id/logs" -> LogsCatch(err)

\* The storage call a handler awaits rejects (the store is unreachable).
StorageFault(c) ==
  /\ pc[c] # "idle"
  /\ Answer(c, Catch(req[c].route, StorageDown))
  /\ UNCHANGED <<users, exercises, req, calls, sent>>

\* ------------------------------------------------------ specifications
\* The request of client c arrives, drawn from the requests in R.
Receive(c, R) ==
  \/ \E r \in R \cap CreateUserRequests : PostUsers(c, r)
  \/ \E r \in R \cap ListUsersRequests : GetUsers(c, r)
  \/ \E r \in R \cap AddExerciseRequests : PostExercises(c, r)
  \/ \E r \in R \cap LogsRequests : GetLogs(c, r)

\* A storage call of the handler of client c completes.
Resume(c) ==
  \/ CreateUserFindOne(c)
  \/ CreateUserSave(c)
  \/ ListUsersFind(c)
  \/ AddExerciseFindUser(c)
  \/ AddExerciseSave(c)
  \/ LogsFindUser(c)
  \/ LogsExec(c)

\* One client sends any request, one request after the other.
NextSerial == \E c \in {1} : Receive(c, Requests) \/ Resume(c)
SpecSerial == Init /\ [][NextSerial]_vars

\* Clients send requests concurrently; the handlers interleave at awaits.
Next == \E c \in Clients : Receive(c, CoreRequests) \/ Resume(c)
Spec == Init /\ [][Next]_vars

\* As Spec, and any awaited storage call may fail.
NextFault == \E c \in Clients : Receive(c, FaultRequests) \/ Resume(c) \/ StorageFault(c)
SpecFault == Init /\ [][NextFault]_vars

\* ---------------------------------------------------------- properties
CreateUser == "POST /api/users"
ListUsers == "GET /api/users"
AddExercise == "POST /api/users/:_id/exercises"
Logs == "GET /api/users/:_id/logs"

\* Client c holds the answer to its request, a request of route.
Answered(c, route) == pc[c] = "idle" /\ req[c].route = route /\ resp[c].status # 0

\* The handler of client c ends in this step.
Answers(c) == pc[c] # "idle" /\ pc'[c] = "idle"

\* Sequences s and t hold the same elements, each as often.
SameBag(s, t) ==
  /\ Len(s) = Len(t)
  /\ \E f \in [1 .. Len(s) -> 1 .. Len(s)] :
       /\ \A i, j \in 1 .. Len(s) : f[i] = f[j] => i = j
       /\ \A i \in 1 .. Len(s) : s[i] = t[f[i]]

\* The stored users named name.
Named(name) == {i \in 1 .. Len(users) : users[i].username = name}

\* ------------------------------------------------------------------ C1
\* Client c's create-user request found no user and went on to save.
TriedSave(c) ==
  /\ Answered(c, CreateUser)
  /\ calls[c] = <<"User.findOne", "newUser.save">>

C1_Answers ==
  \A c, d \in Clients :
    (c # d /\ TriedSave(c) /\ TriedSave(d) /\ req[c].username = req[d].username) =>
      /\ Cardinality(Named(req[c].username)) = 1
      /\ ~(resp[c].status = 200 /\ resp[d].status = 200)
      /\ \A e \in {c, d} :
           \/ /\ resp[e].status = 200
              /\ \E i \in Named(req[e].username) :
                   resp[e].body = [username |-> req[e].username, _id |-> users[i].id]
           \/ resp[e] = [status |-> 400, body |-> [error |-> "Username already taken"]]

C1_SaveStep ==
  \A c \in Clients :
    (pc[c] = "newUser.save" /\ Answers(c)) =>
      IF Named(req[c].username) = {}
      THEN /\ resp'[c].status = 200
           /\ Len(users') = Len(users) + 1
           /\ users'[Len(users')] =
                [id |-> resp'[c].body._id, username |-> req[c].username]
      ELSE /\ resp'[c] = [status |-> 400, body |-> [error |-> "Username already taken"]]
           /\ users' = users

\* C1: of the create-user requests for one username that all found no user
\* and went on to save, the save of exactly one succeeds (the username is
\* stored once) and that request answers 200 with {username, _id}; every
\* other one is rejected by the unique index and answers 400 "Username
\* already taken", never 500, and inserts nothing.
C1_RaceOnUsername == [] C1_Answers /\ [][C1_SaveStep]_vars

C1_Witness ==
  \E c, d \in Clients :
    /\ c # d /\ TriedSave(c) /\ TriedSave(d)
    /\ req[c].username = req[d].username
    /\ resp[c].status = 200
    /\ resp[d].status = 400

\* ------------------------------------------------------------------ C2
C2_Stored ==
  /\ \A i, j \in 1 .. Len(users) : users[i].username = users[j].username => i = j
  /\ \A i \in 1 .. Len(users) : users[i].username \notin {NONE, ""}

C2_ListStep ==
  \A c \in Clients :
    (pc[c] = "User.find" /\ Answers(c)) =>
      /\ resp'[c].status = 200
      /\ \A i \in 1 .. Len(users) :
           Cardinality({j \in DOMAIN resp'[c].body :
                          resp'[c].body[j].username = users[i].username}) = 1
      /\ \A j \in DOMAIN resp'[c].body :
           \E i \in 1 .. Len(users) : resp'[c].body[j] =
                [username |-> users[i].username, _id |-> users[i].id]

\* C2: no two stored users have the same username and no stored username is
\* empty, whatever the interleaving of create-user requests; a list-users
\* answer holds every stored user's username exactly once, and nothing else.
C2_UniqueUsernames == [] C2_Stored /\ [][C2_ListStep]_vars

C2_Witness ==
  /\ Len(users) = 2
  /\ \E c \in Clients : Answered(c, ListUsers) /\ Len(resp[c].body) = 2
  /\ \E d \in Clients : TriedSave(d) /\ resp[d].status = 400

\* ------------------------------------------------------------------ C3
C3_SameId ==
  \A c \in Clients :
    (Answered(c, CreateUser) /\ resp[c].status = 200) =>
      \E i \in Named(req[c].username) :
        resp[c].body = [username |-> req[c].username, _id |-> users[i].id]

C3_LookupStep ==
  \A c \in Clients :
    (pc[c] = "User.findOne" /\ pc'[c] # "User.findOne" /\ Named(req[c].username) # {}) =>
      /\ Answers(c)
      /\ resp'[c].status = 200
      /\ \E i \in Named(req[c].username) :
           resp'[c].body = [username |-> req[c].username, _id |-> users[i].id]
      /\ users' = users
      /\ exercises' = exercises

\* C3: a create-user request whose username is stored when its lookup runs
\* answers 200 with the stored user's id and leaves both collections as they
\* are; every 200 answer of create-user, of the creating or of a repeated
\* request, carries the id under which the username is stored.
C3_IdempotentByUsername == [] C3_SameId /\ [][C3_LookupStep]_vars

C3_Witness ==
  \E c, d \in Clients :
    /\ c # d
    /\ TriedSave(c) /\ resp[c].status = 200
    /\ Answered(d, CreateUser) /\ calls[d] = <<"User.findOne">>
    /\ resp[d] = resp[c]

\* ------------------------------------------------------------------ C4
C4_Refers == \A k \in 1 .. Len(exercises) : FindById(exercises[k].userId) # {}

C4_InsertStep ==
  exercises' # exercises =>
    /\ Len(exercises') = Len(exercises) + 1
    /\ \E i \in 1 .. Len(users) : users[i].id = exercises'[Len(exercises')].userId
    /\ \A i \in 1 .. Len(users) : i <= Len(users') /\ users'[i] = users[i]

\* C4: every stored exercise's userId is the id of a stored user: an exercise
\* is inserted only with the id of a user stored at that moment, and no step
\* removes or changes a stored user.
C4_ExerciseRefersToUser == [] C4_Refers /\ [][C4_InsertStep]_vars

C4_Witness ==
  /\ Len(exercises) = 2
  /\ exercises[1].userId # exercises[2].userId
\* ------------------------------------------------------------------ C5
\* The 400 answers for a missing or malformed body field, and for a
\* malformed query parameter.
BodyErrors ==
  {"Username is required", "Description and duration are required",
   "Duration must be a number", "Invalid date format"}
QueryErrors == {"Invalid 'from' date format", "Invalid 'to' date format"}

\* C5 as claimed: a request answered 400 for missing or malformed input, an
\* unparseable from or to of the logs route included, has made no storage
\* call before that answer.
C5_NoCallBeforeValidation ==
  \A c \in Clients :
    (pc[c] = "idle" /\ resp[c].status = 400
       /\ resp[c].body.error \in BodyErrors \cup QueryErrors) =>
      calls[c] = <<>>

\* C5 as amended: a request answered 400 for a missing or malformed body
\* field has made no storage call; a logs request answered 400 for an
\* unparseable from or to has made exactly one, the lookup of its user.
C5_CallsBeforeValidation ==
  \A c \in Clients :
    (pc[c] = "idle" /\ resp[c].status = 400) =>
      /\ resp[c].body.error \in BodyErrors => calls[c] = <<>>
      /\ resp[c].body.error \in QueryErrors => calls[c] = <<"User.findById">>

C5_Witness ==
  \E c \in Clients :
    /\ Answered(c, Logs)
    /\ resp[c] = [status |-> 400, body |-> [error |-> "Invalid 'to' date format"]]
    /\ calls[c] = <<"User.findById">>

\* ------------------------------------------------------------------ C6
\* The duration and date inputs that are not a number, not a date.
NotNumbers == {"abc"}
NotDates == {"garbage"}

\* C6: the answer to an add-exercise request is that of its first failing
\* check: description or duration missing, then duration not a number, then
\* date present and unparseable (all 400), then a well-formed userId that
\* is the id of no stored user (404, with an error body).
C6_FirstFailingCheck ==
  \A c \in Clients :
    Answered(c, AddExercise) =>
      LET r == req[c] IN
      IF r.description \in {NONE, ""} \/ r.duration \in {NONE, ""}
      THEN resp[c] = [status |-> 400,
                      body |-> [error |-> "Description and duration are required"]]
      ELSE IF r.duration \in NotNumbers
      THEN resp[c] = [status |-> 400, body |-> [error |-> "Duration must be a number"]]
      ELSE IF r.date \in NotDates
      THEN resp[c] = [status |-> 400, body |-> [error |-> "Invalid date format"]]
      ELSE IF r.id >= 1 /\ \A i \in 1 .. Len(users) : users[i].id # r.id
      THEN resp[c] = [status |-> 404, body |-> [error |-> "User not found"]]
      ELSE resp[c].status \in {200, 400}

C6_Witness ==
  \E c \in Clients :
    /\ Answered(c, AddExercise)
    /\ req[c].description = "run"
    /\ req[c].duration \in NotNumbers
    /\ req[c].date \in NotDates
    /\ req[c].id >= 1 /\ \A i \in 1 .. Len(users) : users[i].id # req[c].id
    /\ resp[c].status = 400

\* ------------------------------------------------------------------ C7
\* Exercise e is one of the user of logs request r, within r's date range.
InRange(e, r) ==
  /\ e.userId = r.id
  /\ r.from \notin {NONE, ""} => ParseDate(r.from).t <= e.date
  /\ r.to \notin {NONE, ""} => e.date <= ParseDate(r.to).t

\* Every entry of log is the entry of an exercise of found, of its own.
EntriesOf(log, found) ==
  \E f \in [1 .. Len(log) -> 1 .. Len(found)] :
    /\ \A i, j \in 1 .. Len(log) : f[i] = f[j] => i = j
    /\ \A i \in 1 .. Len(log) :
         log[i] = [description |-> found[f[i]].description,
                   duration |-> found[f[i]].duration,
                   date |-> found[f[i]].date \div 2]

\* C7: the log of an existing user holds only exercises of that user whose
\* date lies in [from, to], bounds included and applied when supplied; all
\* of them without a limit, min(limit, their number) with a positive limit;
\* and count is the length of the log returned.
C7_LogFilter ==
  \A c \in Clients :
    (Answered(c, Logs) /\ FindById(req[c].id) # {}
       /\ req[c].from \notin NotDates /\ req[c].to \notin NotDates) =>
      LET r == req[c]
          b == resp[c].body
          inRange == SelectSeq(exercises, LAMBDA e : InRange(e, r)) IN
      /\ resp[c].status = 200
      /\ b.count = Len(b.log)
      /\ EntriesOf(b.log, inRange)
      /\ r.limit = NONE => Len(b.log) = Len(inRange)
      /\ r.limit = "1" => Len(b.log) = Min(1, Len(inRange))

C7_Witness ==
  \E c \in Clients :
    /\ Answered(c, Logs) /\ resp[c].status = 200
    /\ req[c].from = "2023-01-02" /\ req[c].to = "2023-01-02"
    /\ resp[c].body.count = 1
    /\ \E k \in 1 .. Len(exercises) :
         exercises[k].userId = req[c].id /\ exercises[k].date = 4
    /\ \E k \in 1 .. Len(exercises) :
         exercises[k].userId = req[c].id /\ exercises[k].date > 4

\* ------------------------------------------------------------------ C8
\* C8: the unfiltered log of user u holds exactly the exercises whose
\* creation was answered 200 for u, each with the description, duration and
\* date string of that answer, under the username and id of that answer;
\* exercises created for other users are not in it.
C8_RoundTrip ==
  \A c \in Clients :
    (Answered(c, Logs) /\ FindById(req[c].id) # {}
       /\ req[c].from = NONE /\ req[c].to = NONE /\ req[c].limit = NONE) =>
      LET b == resp[c].body
          mine == SelectSeq(sent, LAMBDA a : a.body._id = req[c].id) IN
      /\ resp[c].status = 200
      /\ SameBag(b.log, [i \in 1 .. Len(mine) |->
                          [description |-> mine[i].body.description,
                           duration |-> mine[i].body.duration,
                           date |-> mine[i].body.date]])
      /\ \A i \in 1 .. Len(mine) :
           /\ mine[i].status = 200
           /\ mine[i].body.username = b.username
           /\ mine[i].body._id = b._id

C8_Witness ==
  \E c \in Clients :
    /\ Answered(c, Logs) /\ resp[c].status = 200
    /\ req[c].from = NONE /\ req[c].to = NONE /\ req[c].limit = NONE
    /\ Len(resp[c].body.log) = 1
    /\ Len(sent) = 2

\* ------------------------------------------------------------------ C9
\* C9 as claimed: for an existing user, an unparseable from is answered 400
\* naming 'from' and an unparseable to is answered 400 naming 'to', each
\* whatever the other field holds.
C9_EachFieldReported ==
  \A c \in Clients :
    (Answered(c, Logs) /\ FindById(req[c].id) # {}) =>
      /\ req[c].from \in NotDates =>
           resp[c] = [status |-> 400, body |-> [error |-> "Invalid 'from' date format"]]
      /\ req[c].to \in NotDates =>
           resp[c] = [status |-> 400, body |-> [error |-> "Invalid 'to' date format"]]

\* C9 as amended: an unparseable from is answered 400 naming 'from' whatever
\* to holds; an unparseable to is answered 400 naming 'to' when from is
\* absent or parseable; with both unparseable the answer names 'from' only.
C9_FirstFieldReported ==
  \A c \in Clients :
    (Answered(c, Logs) /\ FindById(req[c].id) # {}) =>
      /\ req[c].from \in NotDates =>
           resp[c] = [status |-> 400, body |-> [error |-> "Invalid 'from' date format"]]
      /\ (req[c].to \in NotDates /\ req[c].from \notin NotDates) =>
           resp[c] = [status |-> 400, body |-> [error |-> "Invalid 'to' date format"]]

C9_Witness ==
  \E c \in Clients :
    /\ Answered(c, Logs) /\ FindById(req[c].id) # {}
    /\ req[c].from \in NotDates /\ req[c].to \in NotDates
    /\ resp[c].body.error = "Invalid 'from' date format"

\* ----------------------------------------------------------------- C10
\* Client c is answered in this step.
AnsweredNow(c) ==
  /\ pc'[c] = "idle"
  /\ resp'[c].status # 0
  /\ pc[c] # "idle" \/ req'[c] # req[c] \/ resp'[c] # resp[c]

C10_Step ==
  /\ \A c \in Clients :
       (AnsweredNow(c) /\ resp'[c].status \in {400, 404, 500}) =>
         users' = users /\ exercises' = exercises
  /\ users' # users =>
       \E c \in Clients :
         /\ AnsweredNow(c) /\ resp'[c].status = 200
         /\ req[c].route = CreateUser
         /\ Named(req[c].username) = {}
         /\ Len(users') = Len(users) + 1
         /\ SubSeq(users', 1, Len(users)) = users
         /\ users'[Len(users')].username = req[c].username
         /\ exercises' = exercises
  /\ exercises' # exercises =>
       \E c \in Clients :
         /\ AnsweredNow(c) /\ resp'[c].status = 200
         /\ req[c].route = AddExercise
         /\ Len(exercises') = Len(exercises) + 1
         /\ SubSeq(exercises', 1, Len(exercises)) = exercises
         /\ users' = users

\* C10: a step in which a request is answered 400, 404 or 500 changes
\* neither collection; the Users collection changes only by one user added
\* in the step that answers a create-user request for a new username 200,
\* the Exercises collection only by one exercise added in the step that
\* answers an add-exercise request 200; no step removes or changes a stored
\* record.
C10_Frame == [][C10_Step]_vars

C10_Witness ==
  /\ Len(users) = 1 /\ Len(exercises) = 1
  /\ \E c, d \in Clients :
       /\ Answered(c, CreateUser) /\ resp[c].status = 400 /\ TriedSave(c)
       /\ Answered(d, AddExercise) /\ resp[d].status = 500

====
